---- MODULE Spec2Model ----
(***************************************************************************)
(* Model of the scraping core: the orchestrator (scraperManager.js), the  *)
(* adapter run and its fetch loop (baseScraper.js), the concurrency gate  *)
(* (rateLimiter.js), the run log (ScrapingLog.js) and the content store   *)
(* (Content.js).                                                          *)
(*                                                                        *)
(* Node.js runs a callback to its next await on I/O without interruption, *)
(* so one action is the code between two I/O suspensions of one task.     *)
(***************************************************************************)
EXTENDS Integers, Sequences, FiniteSets, TLC

\* ------------------------------------------------------------------ bounds
MaxRuns == 4        \* runScraper invocations over the life of the process
MaxStops == 1       \* stopAll requests that find a run in progress
MaxBatch == 2       \* items in one bulkUpsert batch
MaxBulk == 2        \* bulkUpsert calls over the life of the store
MaxClock == 3       \* days the clock runs
MaxCleanups == 1    \* cleanup calls
MaxDocs == 3        \* documents the collection can hold
MaxPasses == 2      \* runs of the adapter over the same feed
MaxFailed == 1      \* largest results.failed handed to complete()
MaxEntries == 1     \* entries of errors[] and of warnings[] in the log methods' runs
Grain == 2          \* a token is counted in Grain parts; the limiter's clock
                    \* step is the time in which one part is refilled
MaxRateClock == 5   \* last clock step of the limiter's runs
MaxGrants == 6      \* acquire calls in the limiter's runs
TtlSteps == 2       \* the robots cache's ttl in clock steps
MaxViews == 1       \* detail requests counted on one document
MaxPad == 2         \* blanks before and after a url
RandomParts == 8    \* Math.random() is one of 0/8 .. 7/8

\* ------------------------------------------------------- program constants
DefaultMaxRetries == 3
MaxConcurrent == 3
ContentMaxAgeDays == 90
LimiterMinDelay == 2000   \* this.minDelay of scrapingLimiter, ms
LimiterMaxDelay == 5000   \* this.maxDelay of scrapingLimiter, ms
DefaultExpiryDays == 90   \* pre('save'): parseInt(CONTENT_MAX_AGE_DAYS) || 90
maxTokens == 3            \* 'google.com' bucket
refillRatePer10s == 3     \* 'google.com' refillRate 0.3 tokens a second
minDelay == 3000          \* 'google.com' minDelay, ms
maxDelay == 8000          \* 'google.com' maxDelay, ms
maxSize == 100            \* RobotsCache entries
DefaultMaxItems == 500    \* config.maxItems when MAX_ITEMS_PER_CATEGORY is unset

Adapters == {"news", "job", "blog"}
AdapterOrder == <<"news", "job", "blog">>
\* the :type values the start-one requests of the model carry
RequestNames == {"news", "video"}

FeedUrls(a) ==
  IF a = "news" THEN <<"news1", "news2">>
  ELSE IF a = "job" THEN <<"job1", "job2">>
  ELSE <<"blog1", "blog2">>

AllUrls == {"news1", "news2", "job1", "job2", "blog1", "blog2"}

RunIds == 1..MaxRuns
Terminal == {"completed", "failed", "cancelled", "partial"}

\* -------------------------------------------------------------- variables
VARIABLES
  isRunning,       \* scrapingStatus.isRunning
  activeScrapers,  \* scrapingStatus.activeScrapers: adapter -> entry
  lastRun,         \* scrapingStatus.lastRun (0 = null)
  overall,         \* scrapingStatus.overall
  currentCount,    \* concurrentLimiter.currentCount
  queue,           \* concurrentLimiter.queue (waiting runs, FIFO)
  runs,            \* run id -> the position and locals of that runScraper call
  nRuns,           \* number of runScraper calls made so far
  inst,            \* adapter -> the fields of the scraper instance
  logs,            \* run id -> the ScrapingLog document that run opened
  calls,           \* first run id of a runAllScrapers call -> its position, and
                   \* whether stopAll took effect while it was awaiting
  now,             \* wall clock
  env,             \* the outside world: robots rules, failing feeds, feed payloads
  lastResp,        \* outcome of the most recent orchestrator request
  store,           \* the contents collection: a set of documents
  wr,              \* writer -> the position of its bulkUpsert call
  nBulk,           \* number of bulkUpsert calls made so far
  echo,            \* the last undisturbed bulkUpsert call and its repetition
  cleaned,         \* the most recent cleanup: what it saw and when
  scrapingLimiter, \* the google.com bucket, the callers inside acquire, the grants
  robotsCache,     \* the robots.txt cache and the callers inside get
  pipe,            \* one adapter run over a feed: configuration, items, position
  hashCall,        \* one use of Content.generateHash: its arguments and results
  delayCall,       \* one use of getRandomDelay: the bucket, the random number, the delay
  fetch            \* fetcher -> the position of its request() or puppeteerRequest() call

vars == <<isRunning, activeScrapers, lastRun, overall, currentCount, queue,
          runs, nRuns, inst, logs, calls, now, env, lastResp,
          store, wr, nBulk, echo, cleaned, scrapingLimiter, robotsCache, pipe,
          hashCall, delayCall, fetch>>

storeVars == <<store, wr, nBulk, echo, cleaned>>
callVars == <<hashCall, delayCall, fetch>>
auxVars == <<scrapingLimiter, robotsCache, pipe, callVars>>
orchAll == <<isRunning, activeScrapers, lastRun, overall, currentCount, queue,
             runs, nRuns, inst, logs, calls, env, lastResp>>

orchVars == <<isRunning, activeScrapers, lastRun, overall>>
gateVars == <<currentCount, queue>>

\* ---------------------------------------------------------------- helpers
NoEntry == [status |-> "none", startTime |-> 0, endTime |-> 0, error |-> ""]
NoLog == [status |-> "none", scraper |-> "", startedAt |-> 0, endedAt |-> 0,
          errors |-> <<>>, warnings |-> <<>>, found |-> 0, inserted |-> 0,
          updated |-> 0, duplicates |-> 0,
          failed |-> 0, urlsProcessed |-> 0, urlsFailed |-> 0, closes |-> 0]
IdleRun == [adapter |-> "", pc |-> "idle", idx |-> 0, attempts |-> 0, tries |-> 0,
            call |-> 0, init |-> <<>>, allowed |-> <<>>, robots |-> "none",
            err |-> "", found |-> 0, inserted |-> 0]
ZeroOverall == [totalScraped |-> 0, totalInserted |-> 0, totalErrors |-> 0]

InFlightPcs == {"http"}

\* fetches started through the Fetcher and not yet finished
InFlight == {r \in RunIds : runs[r].pc \in InFlightPcs}

AnyRunning(as) == \E a \in Adapters : as[a].status = "running"

\* ScrapingLog.startSession
StartSession(a, t) ==
  [NoLog EXCEPT !.status = "running", !.scraper = a, !.startedAt = t]

\* ScrapingLog.methods.complete: in-memory part, before save()
LogComplete(l, res, t) ==
  [l EXCEPT !.status = "completed", !.endedAt = t,
            !.found = res.found, !.inserted = res.inserted,
            !.updated = res.updated, !.duplicates = res.duplicates,
            !.failed = res.failed,
            !.urlsProcessed = res.urlsProcessed,
            !.urlsFailed = res.urlsFailed,
            !.closes = IF l.closes < 2 THEN l.closes + 1 ELSE 2]

\* ScrapingLog.methods.fail
LogFail(l, err, t) ==
  [l EXCEPT !.status = "failed", !.endedAt = t,
            !.errors = Append(l.errors, [url |-> "", retryCount |-> 0, type |-> err]),
            !.closes = IF l.closes < 2 THEN l.closes + 1 ELSE 2]

\* an addError that stores no retry count
LogAddErrorNoCount(l, u, n) ==
  [l EXCEPT !.errors = Append(l.errors, [url |-> u, retryCount |-> 0, type |-> "RequestError"])]

\* ScrapingLog.methods.addError
LogAddError(l, u, n) ==
  [l EXCEPT !.errors = Append(l.errors, [url |-> u, retryCount |-> n, type |-> "RequestError"])]

\* ScrapingLog.methods.cancel
LogCancel(l, t) ==
  [l EXCEPT !.status = "cancelled", !.endedAt = t,
            !.closes = IF l.closes < 2 THEN l.closes + 1 ELSE 2]

\* ScrapingLog.methods.addWarning
LogAddWarning(l, u) == [l EXCEPT !.warnings = Append(l.warnings, u)]

\* ConcurrentLimiter.acquire, entered by run r: the new <<count, queue, pc>>
GateAcquire(cc, q, r) ==
  IF cc < MaxConcurrent
    THEN [count |-> cc + 1, queue |-> q, pc |-> "http"]
    ELSE [count |-> cc, queue |-> Append(q, r), pc |-> "queued"]

\* ConcurrentLimiter.release: the count goes down and the first waiter, if
\* any, takes the permit
GateRelease(cc, q, rs) ==
  IF Len(q) > 0
    THEN [count |-> cc, queue |-> Tail(q),
          runs |-> [rs EXCEPT ![Head(q)].pc = "http"]]
    ELSE [count |-> cc - 1, queue |-> q, runs |-> rs]

\* ConcurrentLimiter.reset
GateReset == [count |-> 0, queue |-> <<>>]

\* ---------------------------------------------------------- content store
\* Text is a sequence of characters; time is counted in days.
ToLowerCase(str) == [i \in 1..Len(str) |-> IF str[i] = "A" THEN "a" ELSE str[i]]

RECURSIVE TrimStart(_)
TrimStart(str) ==
  IF str # <<>> /\ Head(str) = " " THEN TrimStart(Tail(str)) ELSE str

RECURSIVE TrimEnd(_)
TrimEnd(str) ==
  IF str # <<>> /\ str[Len(str)] = " "
    THEN TrimEnd(SubSeq(str, 1, Len(str) - 1)) ELSE str

Trim(str) == TrimEnd(TrimStart(str))

\* Content.generateHash: SHA-256 of "<url>|<title>", both lowercased and
\* trimmed; the digest is stood for by the pair it is computed from
generateHash(url, title) == <<Trim(ToLowerCase(url)), Trim(ToLowerCase(title))>>

\* the urls and titles generateHash is used on: host and path of one or two
\* letters, up to MaxPad blanks before and after
Hosts == {<<"a">>, <<"A">>, <<"A", "b">>}
UrlPaths == {<<"a">>, <<"A">>, <<"b", "A">>}
Titles == {<<"b">>, <<"A">>}
Blanks(n) == [i \in 1..n |-> " "]
Url(host, path) == host \o <<"/">> \o path
HashInputs ==
  [pc : {"called"}, host : Hosts, path : UrlPaths, title : Titles,
   lead : 0..MaxPad, trail : 0..MaxPad, h : {<<>>}]
NoHash == [pc |-> "idle", host |-> <<>>, path |-> <<>>, title |-> <<>>,
           lead |-> 0, trail |-> 0, h |-> <<>>]

\* the case of every letter changed
OtherCase(str) ==
  [i \in 1..Len(str) |->
     IF str[i] = "A" THEN "a" ELSE IF str[i] = "a" THEN "A" ELSE str[i]]

\* the url of a call, and the urls it is compared with: blanks around it,
\* the host in the other case, the path in the other case
UrlForms(c) ==
  [plain |-> Url(c.host, c.path),
   padded |-> Blanks(c.lead) \o Url(c.host, c.path) \o Blanks(c.trail),
   host |-> Url(OtherCase(c.host), c.path),
   path |-> Url(c.host, OtherCase(c.path))]

\* the scraped items the writers hold: the first two differ in case,
\* whitespace and description only
Item1 == [url |-> <<"a">>, title |-> <<"b">>, description |-> "d1"]
Item2 == [url |-> <<"A", " ">>, title |-> <<"b">>, description |-> "d2"]
Item3 == [url |-> <<"b">>, title |-> <<"b">>, description |-> "d1"]

\* the batches the writers send, of at most MaxBatch items
Batches ==
  {b \in {<<Item1, Item2>>, <<Item2>>, <<Item3, Item1>>} : Len(b) <= MaxBatch}

Writers == {"w1", "w2"}
Statuses == {"active", "flagged"}
\* the schema's enum of status
AllStatuses == {"active", "archived", "deleted", "flagged"}
MaxAgeChoices == {1, 2}

IdleWriter == [pc |-> "idle", batch |-> <<>>, i |-> 0, at |-> 0, inserted |-> 0,
               modified |-> 0, failed |-> 0, quiet |-> FALSE]
NoEcho == [phase |-> "none", by |-> "", batch |-> <<>>, snap |-> {},
           inserted |-> 0, final |-> {}]
NoCleanup == [n |-> 0, before |-> {}, at |-> 0, maxAgeDays |-> 0, after |-> {}]

\* a unique index that does not reject duplicates
contentHashFree == FALSE

\* the schema's contentHash: { unique: true }
contentHashUnique == TRUE

Matching(st, h) == {doc \in st : doc.contentHash = h}

FreshId(st) ==
  CHOOSE n \in 1..(Cardinality(st) + 1) : \A doc \in st : doc.id # n

\* the document an upsert inserts: the filter's contentHash, $set,
\* $setOnInsert, the schema defaults and the schema timestamps
NewDoc(id, item, h, t) ==
  [id |-> id, contentHash |-> h, url |-> Trim(item.url),
   title |-> Trim(item.title), description |-> item.description,
   status |-> "active", scrapedAt |-> t, lastUpdated |-> t, updatedAt |-> t,
   views |-> 0, expiresAt |-> 0]

\* an update that writes scrapedAt with $set
ApplySetAndScrapedAt(doc, item, h, t) ==
  [doc EXCEPT !.url = Trim(item.url), !.title = Trim(item.title),
              !.description = item.description, !.contentHash = h,
              !.lastUpdated = t, !.updatedAt = t, !.scrapedAt = t]

\* an update whose $set also carries the schema defaults of status and of
\* the counters
ApplySetAndDefaults(doc, item, h, t) ==
  [doc EXCEPT !.url = Trim(item.url), !.title = Trim(item.title),
              !.description = item.description, !.contentHash = h,
              !.lastUpdated = t, !.updatedAt = t, !.status = "active",
              !.views = 0]

\* the update of a matched document: $set {...content, contentHash,
\* lastUpdated} and the updatedAt of timestamps: true
ApplySet(doc, item, h, t) ==
  [doc EXCEPT !.url = Trim(item.url), !.title = Trim(item.title),
              !.description = item.description, !.contentHash = h,
              !.lastUpdated = t, !.updatedAt = t]

\* cleanup: cutoffDate.setDate(cutoffDate.getDate() - maxAgeDays)
Cutoff(t, maxAgeDays) == t - maxAgeDays

\* a cleanup filter without the status condition
CleanupFilterAnyStatus(doc, cutoffDate) == doc.scrapedAt < cutoffDate

\* cleanup: the deleteMany filter
CleanupFilter(doc, cutoffDate) ==
  doc.scrapedAt < cutoffDate /\ doc.status # "flagged"

DeleteMany(st, cutoffDate) == {doc \in st : ~CleanupFilter(doc, cutoffDate)}

\* Content.cleanup(maxAgeDays) called on day t: the collection it leaves and
\* the record of the call
CleanupResult(st, t, maxAgeDays) == DeleteMany(st, Cutoff(t, maxAgeDays))

CleanupRecord(c, st, t, maxAgeDays) ==
  [n |-> IF c.n < MaxCleanups THEN c.n + 1 ELSE c.n, before |-> st, at |-> t,
   maxAgeDays |-> maxAgeDays, after |-> CleanupResult(st, t, maxAgeDays)]

\* ------------------------------------------------------------ environment
\* denied: the urls robots.txt disallows; fails: how many more requests of
\* url failUrl fail; itemUrl: the feed that holds one relevant item;
\* stops: stopAll requests that found a run in progress, at most maxStops;
\* watch: whether the admin client keeps the answer to a rejected request
\* MAX_RETRIES: the text of the environment variable, "" when it is unset
World(d, fu, n, iu, w) ==
  [denied |-> d, failUrl |-> fu, fails |-> n, itemUrl |-> iu,
   stops |-> 0, maxStops |-> IF w THEN 0 ELSE MaxStops, watch |-> w,
   MAX_RETRIES |-> "", CONTENT_MAX_AGE_DAYS |-> "", USE_PUPPETEER |-> ""]

Worlds ==
  { World({}, "", 0, "", TRUE),
    World({}, "", 0, "blog1", FALSE),
    World({"news2"}, "", 0, "news1", FALSE),
    World({}, "news1", DefaultMaxRetries, "", FALSE),
    [World({}, "job1", DefaultMaxRetries - 1, "job1", FALSE) EXCEPT !.maxStops = 0],
    [World({}, "job1", DefaultMaxRetries, "", FALSE)
       EXCEPT !.maxStops = 0, !.MAX_RETRIES = "0"] }

\* a JavaScript number: NaN or an integer
NaN == [nan |-> TRUE, n |-> 0]
Num(k) == [nan |-> FALSE, n |-> k]

\* parseInt(text, 10) on the texts an environment may hold
parseInt(text) ==
  IF text = "0" THEN Num(0)
  ELSE IF text = "1" THEN Num(1)
  ELSE IF text = "2" THEN Num(2)
  ELSE IF text = "3" THEN Num(3)
  ELSE NaN

\* x || d on numbers: NaN and 0 are falsy
OrElse(x, d) == IF x.nan \/ x.n = 0 THEN d ELSE x.n

\* const MAX_RETRIES = parseInt(process.env.MAX_RETRIES, 10) || 3
MAX_RETRIES == OrElse(parseInt(env.MAX_RETRIES), DefaultMaxRetries)

\* a request() that never gives a url up
ExhaustedNever(attempts) == FALSE

\* request(): if (attempts >= maxRetries)
Exhausted(attempts) == attempts >= MAX_RETRIES

\* the environment of a deployment that keeps content for one day
ExpiryWorlds ==
  { [World({}, "", 0, "", TRUE) EXCEPT !.CONTENT_MAX_AGE_DAYS = "1"] }

\* pre('save'): lastUpdated, and expiresAt when the document has none
\* (0 stands for a missing expiresAt); save() also writes updatedAt
PreSave(doc, t) ==
  [doc EXCEPT !.lastUpdated = t, !.updatedAt = t,
              !.expiresAt =
                 IF @ = 0
                   THEN t + OrElse(parseInt(env.CONTENT_MAX_AGE_DAYS), DefaultExpiryDays)
                   ELSE @]

\* the TTL index { expiresAt: 1 }, expireAfterSeconds 0: the documents the
\* server's TTL monitor removes at time t
TtlExpired(doc, t) == doc.expiresAt # 0 /\ doc.expiresAt <= t

\* the callers of request() and puppeteerRequest() and the url each fetches
Fetchers == {"f1", "f2", "f3", "f4"}
FetchKinds == {"plain", "puppeteer"}
FetchUrl(f) ==
  IF f = "f1" THEN "news1" ELSE IF f = "f2" THEN "news2"
  ELSE IF f = "f3" THEN "job1" ELSE "blog1"

\* the environments of the fetch paths: the headless browser enabled or
\* not, news1 denied by robots or failing once, at most two attempts
FetchWorlds ==
  { [World(d, fu, n, "", TRUE) EXCEPT !.MAX_RETRIES = "2", !.USE_PUPPETEER = p] :
      d \in {{}, {"news1"}}, fu \in {"news1"}, n \in {0, 1}, p \in {"", "true"} }

\* const USE_PUPPETEER = process.env.USE_PUPPETEER === 'true'
USE_PUPPETEER == env.USE_PUPPETEER = "true"

\* order: what the current attempt has done so far, in the order it did it
IdleFetch == [pc |-> "idle", kind |-> "", attempts |-> 0, holds |-> FALSE,
              browser |-> FALSE, order |-> <<>>]

\* a fetch path that goes from the robots check to the browser and the
\* rate-limit permit
AfterRobotsNoGate(kind) == "browser"

\* what follows an allowed robots check: request() calls
\* concurrentLimiter.execute, puppeteerRequest() turns to its browser and
\* then to scrapingLimiter.acquire
AfterRobots(kind) == IF kind = "plain" THEN "gate" ELSE "browser"

\* fn of concurrentLimiter.execute starts: scrapingLimiter.acquire is awaited
EnterGate(ff) ==
  [ff EXCEPT !.pc = "permit", !.holds = TRUE, !.order = @ \o <<"gate", "await">>]

\* the answer the admin client holds after a request answered x
Answer(x) == IF env.watch THEN x ELSE lastResp

\* --------------------------------------------------------------- initial
OrchStart ==
  /\ isRunning = FALSE
  /\ activeScrapers = [a \in Adapters |-> NoEntry]
  /\ lastRun = 0
  /\ overall = ZeroOverall
  /\ currentCount = 0
  /\ queue = <<>>
  /\ runs = [r \in RunIds |-> IdleRun]
  /\ nRuns = 0
  /\ inst = [a \in Adapters |->
              [scrapingLog |-> 0, items |-> 0, processed |-> {}, failed |-> {},
               retry |-> [u \in AllUrls |-> 0], initialUrls |-> FeedUrls(a)]]
  /\ logs = [r \in RunIds |-> NoLog]
  /\ calls = [r \in RunIds |-> "none"]
  /\ now = 1
  /\ lastResp = "none"

OrchInit == OrchStart /\ env \in Worlds

StoreInit ==
  /\ store = {}
  /\ wr = [w \in Writers |-> IdleWriter]
  /\ nBulk = 0
  /\ echo = NoEcho
  /\ cleaned = NoCleanup

\* ---------------------------------------------------- scraping limiter
\* the callers that can be inside scrapingLimiter.acquire at once: the
\* holders of the gate's permits
Acquirers == 1..MaxConcurrent

\* tokens are held in parts: the bucket's capacity and what one permit costs
Capacity == maxTokens * Grain
Permit == Grain

Min(a, b) == IF a < b THEN a ELSE b

\* getRandomDelay(bucket): the delays between minDelay and maxDelay that are
\* whole clock steps (a step is 10000 / (refillRatePer10s * Grain) ms)
DelayChoices ==
  { k \in 0..MaxRateClock :
      /\ minDelay * refillRatePer10s * Grain <= k * 10000
      /\ k * 10000 <= maxDelay * refillRatePer10s * Grain }

\* the minDelay and maxDelay of the domain profiles: the six of the
\* constructor, and profiles set with configureDomain
Profile(lo, hi) == [minDelay |-> lo, maxDelay |-> hi]
DomainConfig ==
  { Profile(2000, 5000), Profile(3000, 8000), Profile(5000, 10000),
    Profile(3000, 7000), Profile(4000, 8000), Profile(2000, 4000) }
Configured ==
  { Profile(0, 0), Profile(1, 1), Profile(1000, 1000), Profile(6000, 6000),
    Profile(1, 3) }

\* a || b on numbers
Or(a, b) == IF a = 0 THEN b ELSE a

\* getRandomDelay(bucket), Math.random() being random / RandomParts
getRandomDelay(bucket, random) ==
  LET lo == Or(bucket.minDelay, LimiterMinDelay)
      hi == Or(bucket.maxDelay, LimiterMaxDelay)
  IN ((random * (hi - lo + 1)) \div RandomParts) + lo

DelayInputs ==
  [pc : {"called"}, bucket : DomainConfig \cup Configured,
   random : 0..(RandomParts - 1), delay : {0}]
NoDelay == [pc |-> "idle", bucket |-> Profile(0, 0), random |-> 0, delay |-> 0]

NoBucket == [exists |-> FALSE, tokens |-> 0, lastRefill |-> 0]
IdleAcquire == [pc |-> "idle", wakeAt |-> 0, waitTime |-> 0]

\* getDomainBucket: the bucket is made full on first use, then refilled for
\* the time since lastRefill
GetDomainBucket(b, t) ==
  LET b0 == IF b.exists THEN b
            ELSE [exists |-> TRUE, tokens |-> Capacity, lastRefill |-> t]
  IN [b0 EXCEPT !.tokens = Min(Capacity, b0.tokens + (t - b0.lastRefill)),
                !.lastRefill = t]

\* acquire: bucket.tokens -= 1, then the random delay d is awaited
Grant(sl, b, c, d, t) ==
  [bucket |-> [b EXCEPT !.tokens = b.tokens - Permit],
   acq |-> [sl.acq EXCEPT ![c] = [pc |-> "delay", wakeAt |-> t + d, waitTime |-> 0]],
   grants |-> Append(sl.grants, t)]

\* ------------------------------------------------------------ robots cache
Origins == {"https://news.google.com", "https://medium.com"}
Getters == {"g1", "g2"}

Paths == {"/rss", "/feed"}

\* what axios.get of robots.txt can do: answer 200 with rules that disallow
\* the given paths, answer 404, answer 500 or above, fail on the network,
\* or run into the timeout
FetchOutcomes ==
  { [kind |-> "200", disallow |-> {}], [kind |-> "200", disallow |-> {"/rss"}],
    [kind |-> "404", disallow |-> {}], [kind |-> "5xx", disallow |-> {}],
    [kind |-> "network", disallow |-> {}], [kind |-> "timeout", disallow |-> {}] }

\* validateStatus: (status) => status < 500, and the requests that get no
\* answer: the outcomes on which axios.get throws
FetchThrows(outcome) == outcome.kind \in {"5xx", "network", "timeout"}

\* a fetch whose catch block keeps the rules it has no answer for
FetchResultStrict(key, outcome, t) ==
  [origin |-> key, fetchedAt |-> t, exists |-> TRUE, disallow |-> Paths,
   error |-> FetchThrows(outcome)]

\* RobotsCache.fetch: the object it returns
FetchResult(key, outcome, t) ==
  IF FetchThrows(outcome)
    THEN [origin |-> key, fetchedAt |-> t, exists |-> FALSE, disallow |-> {},
          error |-> TRUE]
  ELSE IF outcome.kind = "200"
    THEN [origin |-> key, fetchedAt |-> t, exists |-> TRUE,
          disallow |-> outcome.disallow, error |-> FALSE]
  ELSE [origin |-> key, fetchedAt |-> t, exists |-> FALSE, disallow |-> {},
        error |-> FALSE]

\* RobotsCache.isAllowed: the answer from what get returned
IsAllowed(robots, path) ==
  IF ~robots.exists THEN TRUE ELSE path \notin robots.disallow

NoRobots == [origin |-> "", fetchedAt |-> 0, exists |-> FALSE, disallow |-> {},
             error |-> FALSE]
\* the origins looked up before: the cache holds one entry of each, in the
\* order they were fetched
Site(i) == "https://site" \o ToString(i)
Prefilled ==
  [i \in 1..(maxSize - 1) |->
     FetchResult(Site(i), [kind |-> "200", disallow |-> {}], 1)]

IdleGet == [pc |-> "idle", origin |-> "", path |-> "", got |-> NoRobots,
            allowed |-> TRUE]

CacheHas(cache, key) == \E i \in 1..Len(cache) : cache[i].origin = key
CacheGet(cache, key) == cache[CHOOSE i \in 1..Len(cache) : cache[i].origin = key]
CacheDelete(cache, key) == SelectSeq(cache, LAMBDA e : e.origin # key)

\* Map.set: an existing key keeps its place, a new one goes last
CacheSet(cache, entry) ==
  IF CacheHas(cache, entry.origin)
    THEN [i \in 1..Len(cache) |->
            IF cache[i].origin = entry.origin THEN entry ELSE cache[i]]
    ELSE Append(cache, entry)

\* ------------------------------------------------------- items of a feed
\* the word webmethods, as text
Webmethods == <<"a">>

\* SEARCH_KEYWORDS: unset gives ['webmethods']; a text of separators only
\* gives the empty list
KeywordChoices == {<<Webmethods>>, <<>>}

\* MAX_ITEMS_PER_CATEGORY, as text
MaxItemsChoices == {"", "1"}

\* config.maxItems: parseInt(process.env.MAX_ITEMS_PER_CATEGORY, 10) || 500
ConfigMaxItems(text) == OrElse(parseInt(text), DefaultMaxItems)

\* what NewsScraper.scrapeSource hands to addItem for one <item> of the feed
Candidate(title, url, description, keywords) ==
  [title |-> title, url |-> url, description |-> description,
   tags |-> << <<"n">>, Webmethods, <<"r">> >>, keywords |-> keywords,
   source |-> <<"s">>, sourceName |-> <<"s">>]

\* the <item>s of a feed, as <<title, link, description>>: a title with the
\* keyword, the same title in another case, a title and description without
\* it, and an item without title
Entry1 == << <<"A">>, <<"a">>, <<"d">> >>
Entry2 == << <<"a">>, <<"a">>, <<"d">> >>
Entry3 == << <<"b">>, <<"b">>, <<"d">> >>
Entry4 == << <<>>, <<"b">>, <<"d">> >>

FeedChoices ==
  { <<Entry1, Entry3>>, <<Entry3>>, <<Entry1, Entry2>>, <<Entry4, Entry1>> }

\* what another adapter saves meanwhile: an item with the link and title of
\* Entry3
OtherBatch == <<Candidate(<<"b">>, <<"b">>, <<"e">>, <<Webmethods>>)>>

RECURSIVE Join(_)
\* parts.join(' ')
Join(parts) ==
  IF parts = <<>> THEN <<>>
  ELSE IF Len(parts) = 1 THEN parts[1]
  ELSE parts[1] \o <<" ">> \o Join(Tail(parts))

\* text.includes(k)
Includes(text, k) ==
  \E i \in 0..(Len(text) - Len(k)) : SubSeq(text, i + 1, i + Len(k)) = k

\* addItem: the text the keywords are looked for in
ItemText(item) ==
  ToLowerCase(Join(SelectSeq(
    <<item.title, item.description>> \o item.tags \o item.keywords
      \o <<item.source, item.sourceName>>,
    LAMBDA p : p # <<>>)))

\* addItem: this.config.keywords.some(k => text.includes(k))
IsRelevant(item, keywords) ==
  \E i \in 1..Len(keywords) : Includes(ItemText(item), keywords[i])

\* addItem: scrapedItems after the call
AddItem(items, item, keywords) ==
  IF item.title = <<>> \/ item.url = <<>> THEN items
  ELSE IF ~IsRelevant(item, keywords) THEN items
  ELSE Append(items, item)

RECURSIVE ScrapeFeed(_, _, _)
\* scrapeSource: addItem for each <item> of the feed, in order
ScrapeFeed(items, entries, keywords) ==
  IF entries = <<>> THEN items
  ELSE ScrapeFeed(AddItem(items,
                          Candidate(Head(entries)[1], Head(entries)[2],
                                    Head(entries)[3], keywords),
                          keywords),
                  Tail(entries), keywords)

\* _processAndSaveItems: items.slice(0, this.config.maxItems)
Slice(items, n) == SubSeq(items, 1, Min(Len(items), n))

NoPipe == [phase |-> "off", keywords |-> <<>>, maxItems |-> 0, feed |-> <<>>,
           scrapedItems |-> <<>>, pass |-> 0, total |-> 0, allStored |-> FALSE]

AuxStart ==
  /\ scrapingLimiter = [bucket |-> NoBucket,
                        acq |-> [c \in Acquirers |-> IdleAcquire],
                        grants |-> <<>>]
  /\ robotsCache = [cache |-> <<>>, get |-> [g \in Getters |-> IdleGet],
                    fetchErrors |-> 0]
  /\ pipe = NoPipe

AuxInit ==
  /\ AuxStart /\ hashCall = NoHash /\ delayCall = NoDelay
  /\ fetch = [f \in Fetchers |-> IdleFetch]

\* ------------------------------------------------ adapter run: transitions
\* BaseScraper.run catch block: scrapingLog.fail(error) is called on whatever
\* log the instance's handle points to, then its save is awaited
EnterFail(rr, lg, h, err, t) ==
  [run |-> [rr EXCEPT !.pc = "fail", !.err = err],
   logs |-> [lg EXCEPT ![h] = LogFail(lg[h], err, t)]]

\* BaseScraper.run after scrapeSource: _processAndSaveItems, then complete()
EnterFinish(rr, lg, ia, t) ==
  IF ia.items = 0
    THEN [run |-> [rr EXCEPT !.pc = "complete", !.found = 0, !.inserted = 0],
          logs |-> [lg EXCEPT ![ia.scrapingLog] =
                      LogComplete(lg[ia.scrapingLog],
                                  [found |-> 0, inserted |-> 0, failed |-> 0,
                                   updated |-> 0, duplicates |-> 0,
                                   urlsProcessed |-> Cardinality(ia.processed),
                                   urlsFailed |-> Cardinality(ia.failed)], t)]]
    ELSE [run |-> [rr EXCEPT !.pc = "save"], logs |-> lg]

\* scrapeSource loop entering its i-th feed, up to request()'s first await.
\* A url whose stored attempt count already reached maxRetries skips the
\* while loop: request returns undefined and cheerio.load(undefined) throws.
BeginUrl(rr, lg, ia, i, t) ==
  LET urls == FeedUrls(rr.adapter) IN
  IF i > Len(urls) THEN EnterFinish(rr, lg, ia, t)
  ELSE IF ia.retry[urls[i]] >= MAX_RETRIES
    THEN EnterFail([rr EXCEPT !.idx = i], lg, ia.scrapingLog, "parse", t)
  ELSE [run |-> [rr EXCEPT !.pc = "robots", !.idx = i, !.tries = 1,
                           !.attempts = ia.retry[urls[i]], !.robots = "none"],
        logs |-> lg]

\* runScraper after scraper.run() returned, with its finally block
FinishRun(as, a, ok, err, t) ==
  [as EXCEPT ![a] = IF ok
      THEN [status |-> "completed", startTime |-> 0, endTime |-> t, error |-> ""]
      ELSE [status |-> "failed", startTime |-> 0, endTime |-> t, error |-> err]]

\* ------------------------------------------------------------ orchestrator
\* a runAllScrapers without its isRunning guard
AlreadyRunningNever == FALSE

\* runAllScrapers: if (scrapingStatus.isRunning) return
AlreadyRunning == isRunning

\* a controller without its isRunning guard
SpecificBusyNever == FALSE

\* controller startSpecificScraper: if (status.isRunning) throw 409
SpecificBusy == isRunning

\* the synchronous head of runScraper and of BaseScraper.run for the
\* adapters of seqA, which become runs nRuns+1 .. nRuns+Len(seqA)
SpawnRuns(seqA, c) ==
  /\ runs' = [r \in RunIds |->
               IF r \in (nRuns + 1)..(nRuns + Len(seqA))
                 THEN [IdleRun EXCEPT !.adapter = seqA[r - nRuns],
                                      !.pc = "startSession", !.call = c]
                 ELSE runs[r]]
  /\ nRuns' = nRuns + Len(seqA)
  /\ inst' = [a \in Adapters |->
               IF \E i \in 1..Len(seqA) : seqA[i] = a
                 THEN [inst[a] EXCEPT !.items = 0, !.processed = {}, !.failed = {}]
                 ELSE inst[a]]

\* runAllScrapers, reached from the controller or from the cron schedule
RunAllScrapers ==
  \/ /\ AlreadyRunning
     /\ lastResp' = Answer("all:AlreadyRunning")
     /\ UNCHANGED <<orchVars, gateVars, runs, nRuns, inst, logs, calls, now, env,
                 storeVars, auxVars>>
  \/ /\ ~AlreadyRunning
     /\ nRuns + Len(AdapterOrder) <= MaxRuns
     /\ isRunning' = TRUE
     /\ lastRun' = now
     /\ overall' = ZeroOverall
     /\ currentCount' = GateReset.count
     /\ queue' = GateReset.queue
     /\ activeScrapers' = [a \in Adapters |->
          [status |-> "running", startTime |-> now, endTime |-> 0, error |-> ""]]
     /\ SpawnRuns(AdapterOrder, nRuns + 1)
     /\ calls' = [calls EXCEPT ![nRuns + 1] = "awaiting"]
     /\ lastResp' = lastResp
     /\ UNCHANGED <<logs, now, env,
                 storeVars, auxVars>>

\* runAllScrapers after Promise.allSettled: every run it spawned has ended;
\* the status is closed and Content.cleanup is called
RunAllSettled(c) ==
  /\ calls[c] \in {"awaiting", "stopped"}
  /\ \A r \in RunIds : runs[r].call = c => runs[r].pc = "done"
  /\ isRunning' = FALSE
  /\ lastRun' = now
  /\ calls' = [calls EXCEPT ![c] = IF calls[c] = "stopped" THEN "doneStopped"
                                                          ELSE "done"]
  /\ store' = CleanupResult(store, now, ContentMaxAgeDays)
  /\ cleaned' = CleanupRecord(cleaned, store, now, ContentMaxAgeDays)
  /\ UNCHANGED <<activeScrapers, overall, gateVars, runs, nRuns, inst, logs,
                 now, env, lastResp, wr, nBulk, echo, auxVars>>

\* controller startSpecificScraper, then runSpecificScraper and runScraper
StartSpecific(name) ==
  \/ /\ name \notin Adapters
     /\ lastResp' = Answer("one:NotFound")
     /\ UNCHANGED <<orchVars, gateVars, runs, nRuns, inst, logs, calls, now, env,
                 storeVars, auxVars>>
  \/ /\ name \in Adapters
     /\ SpecificBusy
     /\ lastResp' = Answer("one:AlreadyRunning")
     /\ UNCHANGED <<orchVars, gateVars, runs, nRuns, inst, logs, calls, now, env,
                 storeVars, auxVars>>
  \/ /\ name \in Adapters
     /\ ~SpecificBusy
     /\ nRuns + 1 <= MaxRuns
     /\ activeScrapers' = [activeScrapers EXCEPT ![name] =
          [status |-> "running", startTime |-> now, endTime |-> 0, error |-> ""]]
     /\ isRunning' = TRUE
     /\ SpawnRuns(<<name>>, 0)
     /\ lastResp' = lastResp
     /\ UNCHANGED <<lastRun, overall, gateVars, logs, calls, now, env,
                 storeVars, auxVars>>

\* the entry stopAllScrapers writes over an existing entry
StopEntry(e, t) == [e EXCEPT !.status = "cancelled", !.endTime = t]

\* stopAllScrapers (Map.forEach visits the entries the map holds)
StopAll ==
  \/ /\ ~isRunning
     /\ lastResp' = Answer("stop:idle")
     /\ UNCHANGED <<orchVars, gateVars, runs, nRuns, inst, logs, calls, now, env,
                 storeVars, auxVars>>
  \/ /\ isRunning
     /\ env.stops < env.maxStops
     /\ env' = [env EXCEPT !.stops = @ + 1]
     /\ calls' = [c \in RunIds |->
                    IF calls[c] = "awaiting" THEN "stopped" ELSE calls[c]]
     /\ isRunning' = FALSE
     /\ activeScrapers' = [a \in Adapters |->
          IF activeScrapers[a].status = "none" THEN activeScrapers[a]
          ELSE StopEntry(activeScrapers[a], now)]
     /\ lastResp' = lastResp
     /\ UNCHANGED <<lastRun, overall, gateVars, runs, nRuns, inst, logs, now,
                 storeVars, auxVars>>

\* what robotsCache.isAllowed answers for url u
RobotsAllowed(u) == u \notin env.denied

Handle(r) == inst[runs[r].adapter].scrapingLog
CurrentUrl(r) == FeedUrls(runs[r].adapter)[runs[r].idx]

\* BaseScraper.run: startSession has returned; the robots pre-check begins
SessionStarted(r) ==
  /\ runs[r].pc = "startSession"
  /\ LET a == runs[r].adapter IN
     /\ logs' = [logs EXCEPT ![r] = StartSession(a, now)]
     /\ inst' = [inst EXCEPT ![a].scrapingLog = r]
     /\ runs' = [runs EXCEPT ![r].pc = "precheck", ![r].idx = 1,
                             ![r].init = inst[a].initialUrls,
                             ![r].allowed = <<>>]
  /\ UNCHANGED <<orchVars, gateVars, nRuns, calls, now, env, lastResp,
                 storeVars, auxVars>>

\* BaseScraper.run: one turn of the pre-check loop over initialUrls
Precheck(r) ==
  /\ runs[r].pc = "precheck"
  /\ LET rr == runs[r]
           a == rr.adapter
           u == rr.init[rr.idx]
           ans == RobotsAllowed(u)
           allowed2 == IF ans THEN Append(rr.allowed, u) ELSE rr.allowed
           logs1 == IF ans THEN logs
                    ELSE [logs EXCEPT ![Handle(r)] = LogAddWarning(logs[Handle(r)], u)]
           rr1 == [rr EXCEPT !.allowed = allowed2]
       IN
       /\ IF rr.idx < Len(rr.init)
            THEN /\ runs' = [runs EXCEPT ![r] = [rr1 EXCEPT !.idx = rr.idx + 1]]
                 /\ logs' = logs1
                 /\ inst' = inst
          ELSE IF allowed2 = <<>>
            THEN LET f == EnterFail(rr1, logs1, Handle(r), "robots", now) IN
                 /\ runs' = [runs EXCEPT ![r] = f.run]
                 /\ logs' = f.logs
                 /\ inst' = inst
          ELSE LET ia == [inst[a] EXCEPT !.initialUrls = allowed2]
                   b == BeginUrl(rr1, logs1, ia, 1, now) IN
                 /\ runs' = [runs EXCEPT ![r] = b.run]
                 /\ logs' = b.logs
                 /\ inst' = [inst EXCEPT ![a] = ia]
  /\ UNCHANGED <<orchVars, gateVars, nRuns, calls, now, env, lastResp,
                 storeVars, auxVars>>

\* a request() that ignores the robots answer
MayFetchAlways(allowed) == TRUE

\* BaseScraper.request: whether the attempt goes on to the Fetcher after
\* robotsCache.isAllowed answered `allowed` (if (!allowed) ... throw)
MayFetch(allowed) == allowed

\* BaseScraper.request: robotsCache.isAllowed has answered for this attempt
RobotsAnswered(r) ==
  /\ runs[r].pc = "robots"
  /\ LET u == CurrentUrl(r)
         ans == RobotsAllowed(u)
         verdict == IF ans THEN "allowed" ELSE "denied"
     IN
     IF MayFetch(ans)
       THEN LET g == GateAcquire(currentCount, queue, r) IN
            /\ currentCount' = g.count
            /\ queue' = g.queue
            /\ runs' = [runs EXCEPT ![r].pc = g.pc, ![r].robots = verdict]
            /\ logs' = logs
       ELSE /\ logs' = [logs EXCEPT ![Handle(r)] = LogAddWarning(logs[Handle(r)], u)]
            /\ runs' = [runs EXCEPT ![r].pc = "warn", ![r].robots = verdict]
            /\ UNCHANGED gateVars
  /\ UNCHANGED <<orchVars, nRuns, inst, calls, now, env, lastResp,
                 storeVars, auxVars>>

\* request(): the addWarning save has returned; the 403 is thrown, counted by
\* request's catch and rethrown to run's catch
WarningSaved(r) ==
  /\ runs[r].pc = "warn"
  /\ LET rr == runs[r]
         a == rr.adapter
         u == CurrentUrl(r)
         n == rr.attempts + 1
         f == EnterFail([rr EXCEPT !.attempts = n], logs, Handle(r), "robots", now)
     IN
     /\ inst' = [inst EXCEPT ![a].retry[u] = n,
                             ![a].failed = inst[a].failed \cup {u}]
     /\ runs' = [runs EXCEPT ![r] = f.run]
     /\ logs' = f.logs
  /\ UNCHANGED <<orchVars, gateVars, nRuns, calls, now, env, lastResp,
                 storeVars, auxVars>>

\* the gate's permit is held (pc http: scrapingLimiter.acquire, then axios);
\* axios has answered: success, or a failure caught by request()
HttpResponse(r) ==
  /\ runs[r].pc = "http"
  /\ LET rr == runs[r]
         a == rr.adapter
         u == CurrentUrl(r)
         g == GateRelease(currentCount, queue, runs)
     IN
     /\ currentCount' = g.count
     /\ queue' = g.queue
     /\ \/ /\ ~(env.failUrl = u /\ env.fails > 0)
           /\ LET k == IF env.itemUrl = u THEN 1 ELSE 0
                 ia == [inst[a] EXCEPT !.processed = inst[a].processed \cup {u},
                                       !.retry[u] = 0,
                                       !.items = inst[a].items + k]
                 b == BeginUrl(rr, logs, ia, rr.idx + 1, now)
             IN
             /\ inst' = [inst EXCEPT ![a] = ia]
             /\ runs' = [g.runs EXCEPT ![r] = b.run]
             /\ logs' = b.logs
             /\ env' = env
        \/ /\ env.failUrl = u /\ env.fails > 0
           /\ env' = [env EXCEPT !.fails = @ - 1]
           /\ inst' = [inst EXCEPT ![a].retry[u] = rr.attempts + 1]
           /\ logs' = [logs EXCEPT ![Handle(r)] =
                         LogAddError(logs[Handle(r)], u, rr.attempts + 1)]
           /\ runs' = [g.runs EXCEPT ![r].pc = "addError",
                                     ![r].attempts = rr.attempts + 1]
  /\ UNCHANGED <<orchVars, nRuns, calls, now, lastResp,
                 storeVars, auxVars>>

\* request(): the addError save has returned
AddErrorSaved(r) ==
  /\ runs[r].pc = "addError"
  /\ LET rr == runs[r]
         a == rr.adapter
         u == CurrentUrl(r)
     IN
     IF Exhausted(rr.attempts)
       THEN LET f == EnterFail(rr, logs, Handle(r), "fetch", now) IN
            /\ inst' = [inst EXCEPT ![a].failed = inst[a].failed \cup {u}]
            /\ runs' = [runs EXCEPT ![r] = f.run]
            /\ logs' = f.logs
       ELSE /\ runs' = [runs EXCEPT ![r].pc = "backoff"]
            /\ UNCHANGED <<inst, logs>>
  /\ UNCHANGED <<orchVars, gateVars, nRuns, calls, now, env, lastResp,
                 storeVars, auxVars>>

\* request(): the backoff sleep is over and the loop asks robots again
BackoffElapsed(r) ==
  /\ runs[r].pc = "backoff"
  /\ runs' = [runs EXCEPT ![r].pc = "robots", ![r].robots = "none",
                          ![r].tries = runs[r].tries + 1]
  /\ UNCHANGED <<orchVars, gateVars, nRuns, inst, logs, calls, now, env, lastResp,
                 storeVars, auxVars>>

\* _processAndSaveItems: bulkUpsert has returned; complete() is called
BulkUpsertDone(r) ==
  /\ runs[r].pc = "save"
  /\ LET rr == runs[r]
         ia == inst[rr.adapter]
     IN
     \E ins \in 0..ia.items, upd \in 0..ia.items :
       /\ ins + upd <= ia.items
       /\ runs' = [runs EXCEPT ![r].pc = "complete", ![r].found = ia.items,
                               ![r].inserted = ins]
       /\ logs' = [logs EXCEPT ![ia.scrapingLog] =
                     LogComplete(logs[ia.scrapingLog],
                                 [found |-> ia.items, inserted |-> ins,
                                  updated |-> upd,
                                  duplicates |-> ia.items - ins - upd,
                                  failed |-> 0,
                                  urlsProcessed |-> Cardinality(ia.processed),
                                  urlsFailed |-> Cardinality(ia.failed)], now)]
  /\ UNCHANGED <<orchVars, gateVars, nRuns, inst, calls, now, env, lastResp,
                 storeVars, auxVars>>

\* run() returned success: runScraper records it and recomputes isRunning
CompleteSaved(r) ==
  /\ runs[r].pc = "complete"
  /\ LET rr == runs[r]
         as == FinishRun(activeScrapers, rr.adapter, TRUE, "", now)
     IN
     /\ activeScrapers' = as
     /\ overall' = [overall EXCEPT !.totalScraped = @ + rr.found,
                                   !.totalInserted = @ + rr.inserted]
     /\ isRunning' = AnyRunning(as)
  /\ runs' = [runs EXCEPT ![r].pc = "done"]
  /\ UNCHANGED <<lastRun, gateVars, nRuns, inst, logs, calls, now, env, lastResp,
                 storeVars, auxVars>>

\* run() returned failure: runScraper records it and recomputes isRunning
FailSaved(r) ==
  /\ runs[r].pc = "fail"
  /\ LET rr == runs[r]
         as == FinishRun(activeScrapers, rr.adapter, FALSE, rr.err, now)
     IN
     /\ activeScrapers' = as
     /\ overall' = [overall EXCEPT !.totalErrors = @ + 1]
     /\ isRunning' = AnyRunning(as)
  /\ runs' = [runs EXCEPT ![r].pc = "done"]
  /\ UNCHANGED <<lastRun, gateVars, nRuns, inst, logs, calls, now, env, lastResp,
                 storeVars, auxVars>>

RunStep(r) ==
  \/ SessionStarted(r)
  \/ Precheck(r)
  \/ RobotsAnswered(r)
  \/ WarningSaved(r)
  \/ HttpResponse(r)
  \/ AddErrorSaved(r)
  \/ BackoffElapsed(r)
  \/ BulkUpsertDone(r)
  \/ CompleteSaved(r)
  \/ FailSaved(r)

\* ------------------------------------------------- content store: actions
\* a write by writer w (or by nobody, w = "") disturbs the calls of the others
Disturb(ws, w) ==
  [v \in Writers |-> IF v = w THEN ws[v] ELSE [ws[v] EXCEPT !.quiet = FALSE]]

\* the echo after a write by the call of writer w
EchoAfterWrite(w) ==
  IF echo.phase = "first" /\ ~(echo.by = w /\ echo.batch = wr[w].batch)
    THEN NoEcho ELSE echo

\* the echo after a write that is no bulkUpsert
EchoAfterOther == IF echo.phase = "first" THEN NoEcho ELSE echo

\* the call of writer w has applied its i-th operation on collection st
OpDone(w, ww, st, e) ==
  IF ww.i < Len(ww.batch)
    THEN /\ wr' = [Disturb(wr, w) EXCEPT ![w] = [ww EXCEPT !.i = ww.i + 1, !.pc = "find"]]
         /\ echo' = e
    ELSE /\ wr' = [Disturb(wr, w) EXCEPT ![w] =
                   [IdleWriter EXCEPT !.inserted = ww.inserted,
                                      !.modified = ww.modified,
                                      !.failed = ww.failed]]
         /\ echo' =
              IF e.phase = "second" \/ ~ww.quiet THEN e
              ELSE IF e.phase = "first" /\ e.by = w /\ e.batch = ww.batch
                THEN [e EXCEPT !.phase = "second", !.inserted = ww.inserted,
                               !.final = st]
              ELSE [NoEcho EXCEPT !.phase = "first", !.by = w,
                                  !.batch = ww.batch, !.snap = st]

\* Content.bulkUpsert(contents): the operations are built, with the hash
\* of each item and the time of the call, and bulkWrite is sent
BulkUpsert(w, contents) ==
  /\ wr[w].pc = "idle"
  /\ nBulk < MaxBulk
  /\ nBulk' = nBulk + 1
  /\ wr' = [wr EXCEPT ![w] =
              [IdleWriter EXCEPT !.pc = "find", !.batch = contents, !.i = 1,
                                 !.at = now,
                                 !.quiet = \A v \in Writers \ {w} : wr[v].pc = "idle"]]
  /\ UNCHANGED <<orchAll, auxVars, now, store, echo, cleaned>>

\* the server runs one updateOne of the batch: a document matches the
\* filter and is updated, or none does and an insert is prepared
UpsertFind(w) ==
  /\ wr[w].pc = "find"
  /\ LET ww == wr[w]
         item == ww.batch[ww.i]
         h == generateHash(item.url, item.title)
     IN
     IF Matching(store, h) = {}
       THEN /\ wr' = [wr EXCEPT ![w].pc = "insert"]
            /\ UNCHANGED <<store, echo>>
       ELSE \E doc \in Matching(store, h) :
              LET doc2 == ApplySet(doc, item, h, ww.at)
                  st == (store \ {doc}) \cup {doc2}
                  ww2 == [ww EXCEPT !.modified = @ + (IF doc2 = doc THEN 0 ELSE 1)]
              IN /\ store' = st
                 /\ OpDone(w, ww2, st, EchoAfterWrite(w))
  /\ UNCHANGED <<orchAll, auxVars, now, nBulk, cleaned>>

\* the prepared insert reaches the index: it is stored, or the unique index
\* rejects it with a duplicate key error and the operation fails
UpsertInsert(w) ==
  /\ wr[w].pc = "insert"
  /\ LET ww == wr[w]
         item == ww.batch[ww.i]
         h == generateHash(item.url, item.title)
     IN
     IF contentHashUnique /\ Matching(store, h) # {}
       THEN /\ store' = store
            /\ OpDone(w, [ww EXCEPT !.failed = @ + 1], store, echo)
       ELSE /\ Cardinality(store) < MaxDocs
            /\ LET st == store \cup {NewDoc(FreshId(store), item, h, ww.at)} IN
               /\ store' = st
               /\ OpDone(w, [ww EXCEPT !.inserted = @ + 1], st, EchoAfterWrite(w))
  /\ UNCHANGED <<orchAll, auxVars, now, nBulk, cleaned>>

\* controller updateContentStatus: findByIdAndUpdate with $set
SetStatus(doc, status) ==
  /\ doc \in store
  /\ doc.status # status
  /\ store' = (store \ {doc}) \cup
                {[doc EXCEPT !.status = status, !.lastUpdated = now, !.updatedAt = now]}
  /\ wr' = Disturb(wr, "")
  /\ echo' = EchoAfterOther
  /\ UNCHANGED <<orchAll, auxVars, now, nBulk, cleaned>>

\* content.flag(): this.status = 'flagged'; await this.save()
Flag(doc) ==
  /\ doc \in store
  /\ doc.status # "flagged"
  /\ store' = (store \ {doc}) \cup {PreSave([doc EXCEPT !.status = "flagged"], now)}
  /\ wr' = Disturb(wr, "")
  /\ echo' = EchoAfterOther
  /\ UNCHANGED <<orchAll, auxVars, now, nBulk, cleaned>>

\* controller getContentById: metrics.views + 1 and save()
GetContentById(doc) ==
  /\ doc \in store
  /\ doc.views < MaxViews
  /\ store' = (store \ {doc}) \cup {PreSave([doc EXCEPT !.views = @ + 1], now)}
  /\ wr' = Disturb(wr, "")
  /\ echo' = EchoAfterOther
  /\ UNCHANGED <<orchAll, auxVars, now, nBulk, cleaned>>

\* the server's TTL monitor removes an expired document
TtlExpire(doc) ==
  /\ doc \in store
  /\ TtlExpired(doc, now)
  /\ store' = store \ {doc}
  /\ wr' = Disturb(wr, "")
  /\ echo' = EchoAfterOther
  /\ UNCHANGED <<orchAll, auxVars, now, nBulk, cleaned>>

\* Content.cleanup(maxAgeDays), from the controller's cleanup request
Cleanup(maxAgeDays) ==
  /\ cleaned.n < MaxCleanups
  /\ store' = CleanupResult(store, now, maxAgeDays)
  /\ cleaned' = CleanupRecord(cleaned, store, now, maxAgeDays)
  /\ wr' = Disturb(wr, "")
  /\ echo' = EchoAfterOther
  /\ UNCHANGED <<orchAll, auxVars, now, nBulk>>

\* a day passes
Tick ==
  /\ now < MaxClock
  /\ now' = now + 1
  /\ UNCHANGED <<orchAll, storeVars, auxVars>>

\* ScrapingRateLimiter.acquire up to its first await
Acquire(c) ==
  LET sl == scrapingLimiter
      b == GetDomainBucket(sl.bucket, now)
      waiting == {x \in Acquirers : sl.acq[x].pc = "wait"}
  IN
  /\ sl.acq[c].pc = "idle"
  /\ Len(sl.grants) + Cardinality(waiting) < MaxGrants
  /\ IF b.tokens < Permit
       THEN scrapingLimiter' =
              [sl EXCEPT !.bucket = b,
                         !.acq[c] = [pc |-> "wait",
                                     wakeAt |-> now + (Permit - b.tokens),
                                     waitTime |-> Permit - b.tokens]]
       ELSE \E d \in DelayChoices : scrapingLimiter' = Grant(sl, b, c, d, now)
  /\ UNCHANGED <<orchAll, now, storeVars, robotsCache, pipe, callVars>>

\* acquire after delay(waitTime): the tokens of the wait are added to the
\* bucket as it is now, lastRefill is left alone, and the permit is taken
WaitOver(c) ==
  LET sl == scrapingLimiter
      a == sl.acq[c]
      b == [sl.bucket EXCEPT !.tokens = Min(Capacity, sl.bucket.tokens + a.waitTime)]
  IN
  /\ a.pc = "wait"
  /\ now >= a.wakeAt
  /\ \E d \in DelayChoices : scrapingLimiter' = Grant(sl, b, c, d, now)
  /\ UNCHANGED <<orchAll, now, storeVars, robotsCache, pipe, callVars>>

\* acquire after delay(randomDelay): it returns
DelayOver(c) ==
  /\ scrapingLimiter.acq[c].pc = "delay"
  /\ now >= scrapingLimiter.acq[c].wakeAt
  /\ scrapingLimiter' = [scrapingLimiter EXCEPT !.acq[c] = IdleAcquire]
  /\ UNCHANGED <<orchAll, now, storeVars, robotsCache, pipe, callVars>>

\* a clock step of the limiter; a timer that is due fires before it
RateTick ==
  /\ now < MaxRateClock
  /\ \A c \in Acquirers :
       scrapingLimiter.acq[c].pc \in {"wait", "delay"} =>
         scrapingLimiter.acq[c].wakeAt > now
  /\ now' = now + 1
  /\ UNCHANGED <<orchAll, storeVars, auxVars>>

\* RobotsCache.isAllowed(url) up to get's await of fetch, or to its answer
\* on a hit
RobotsGet(g, key, path) ==
  LET rc == robotsCache
      valid == CacheHas(rc.cache, key) /\ now - CacheGet(rc.cache, key).fetchedAt < TtlSteps
      c1 == CacheDelete(rc.cache, key)
      c2 == IF Len(c1) >= maxSize THEN Tail(c1) ELSE c1
  IN
  /\ rc.get[g].pc = "idle"
  /\ robotsCache' =
       IF valid
         THEN [rc EXCEPT !.get[g] =
                 [pc |-> "idle", origin |-> key, path |-> path,
                  got |-> CacheGet(rc.cache, key),
                  allowed |-> IsAllowed(CacheGet(rc.cache, key), path)]]
         ELSE [rc EXCEPT !.cache = c2,
                         !.get[g] = [pc |-> "fetch", origin |-> key, path |-> path,
                                     got |-> NoRobots, allowed |-> TRUE]]
  /\ UNCHANGED <<orchAll, now, storeVars, scrapingLimiter, pipe, callVars>>

\* fetch has ended with the given outcome: its result is cached and
\* returned by get, and isAllowed answers from it
RobotsFetched(g, outcome) ==
  LET rc == robotsCache
      robots == FetchResult(rc.get[g].origin, outcome, now)
  IN
  /\ rc.get[g].pc = "fetch"
  /\ robotsCache' =
       [cache |-> CacheSet(rc.cache, robots),
        get |-> [rc.get EXCEPT ![g] =
                   [pc |-> "idle", origin |-> robots.origin,
                    path |-> rc.get[g].path, got |-> robots,
                    allowed |-> IsAllowed(robots, rc.get[g].path)]],
        fetchErrors |-> rc.fetchErrors + (IF FetchThrows(outcome) THEN 1 ELSE 0)]
  /\ UNCHANGED <<orchAll, now, storeVars, scrapingLimiter, pipe, callVars>>

\* the process starts with its environment and the feed has its items
Configure(keywords, maxItemsText, feed) ==
  /\ pipe.phase = "off"
  /\ pipe' = [NoPipe EXCEPT !.phase = "idle", !.keywords = keywords,
                            !.maxItems = ConfigMaxItems(maxItemsText),
                            !.feed = feed]
  /\ UNCHANGED <<orchAll, now, storeVars, scrapingLimiter, robotsCache, callVars>>

\* BaseScraper.run up to the end of scrapeSource: the session is started,
\* the feed is fetched and every <item> goes through addItem; with no item
\* kept, _processAndSaveItems returns at once and complete() is called
FeedScraped ==
  /\ pipe.phase = "idle"
  /\ pipe.pass < MaxPasses
  /\ LET p == pipe.pass + 1
         items == ScrapeFeed(<<>>, pipe.feed, pipe.keywords)
         stored == \A i \in 1..Len(items) :
                     Matching(store, generateHash(items[i].url, items[i].title)) # {}
     IN
     IF items = <<>>
       THEN /\ pipe' = [pipe EXCEPT !.phase = "idle", !.pass = p,
                                    !.scrapedItems = items, !.total = 0,
                                    !.allStored = stored]
            /\ logs' = [logs EXCEPT ![p] =
                          LogComplete(StartSession("news", now),
                                      [found |-> 0, inserted |-> 0, updated |-> 0,
                                       duplicates |-> 0, failed |-> 0,
                                       urlsProcessed |-> 1, urlsFailed |-> 0], now)]
       ELSE /\ pipe' = [pipe EXCEPT !.phase = "scraped", !.pass = p,
                                    !.scrapedItems = items,
                                    !.allStored = stored]
            /\ logs' = [logs EXCEPT ![p] = StartSession("news", now)]
  /\ UNCHANGED <<orchVars, gateVars, runs, nRuns, inst, calls, now, env, lastResp,
                 storeVars, scrapingLimiter, robotsCache, callVars>>

\* _processAndSaveItems: Content.bulkUpsert(limited) is called
FeedSave ==
  /\ pipe.phase = "scraped"
  /\ wr["w1"].pc = "idle"
  /\ LET limited == Slice(pipe.scrapedItems, pipe.maxItems) IN
     /\ wr' = [wr EXCEPT !["w1"] =
                 [IdleWriter EXCEPT !.pc = "find", !.batch = limited, !.i = 1,
                                    !.at = now,
                                    !.quiet = wr["w2"].pc = "idle"]]
     /\ pipe' = [pipe EXCEPT !.phase = "saving", !.total = Len(limited)]
  /\ UNCHANGED <<orchAll, now, store, nBulk, echo, cleaned, scrapingLimiter,
                 robotsCache, callVars>>

\* bulkUpsert has answered: a rejected bulkWrite becomes a DatabaseError and
\* run() fails the log; otherwise complete() is called with the counts
FeedSaved ==
  /\ pipe.phase = "saving"
  /\ wr["w1"].pc = "idle"
  /\ LET saved == wr["w1"]
         p == pipe.pass
     IN
     logs' = [logs EXCEPT ![p] =
       IF saved.failed > 0
         THEN LogFail(logs[p], "DatabaseError", now)
         ELSE LogComplete(logs[p],
                [found |-> Len(pipe.scrapedItems), inserted |-> saved.inserted,
                 updated |-> saved.modified,
                 duplicates |-> pipe.total - saved.inserted - saved.modified,
                 failed |-> 0, urlsProcessed |-> 1, urlsFailed |-> 0], now)]
  /\ pipe' = [pipe EXCEPT !.phase = "idle"]
  /\ UNCHANGED <<orchVars, gateVars, runs, nRuns, inst, calls, now, env, lastResp,
                 storeVars, scrapingLimiter, robotsCache, callVars>>

\* ------------------------------------------------ fetch paths: actions
FetchRest == <<orchVars, runs, nRuns, inst, logs, calls, lastResp, now,
               storeVars, scrapingLimiter, robotsCache, pipe, hashCall, delayCall>>

\* request(url) or puppeteerRequest(url) is called: puppeteerRequest throws
\* when the headless browser is disabled, otherwise the first attempt asks
\* robotsCache.isAllowed
Begin(f, kind) ==
  /\ fetch[f].pc = "idle"
  /\ fetch' = [fetch EXCEPT ![f] =
       [IdleFetch EXCEPT !.kind = kind,
          !.pc = IF kind = "puppeteer" /\ ~USE_PUPPETEER THEN "thrown" ELSE "robots"]]
  /\ UNCHANGED <<FetchRest, gateVars, env>>

\* robotsCache.isAllowed has answered: a denial goes to addWarning; otherwise
\* request() asks the gate and, with a permit, awaits the rate limiter;
\* puppeteerRequest() launches its browser if it has none and awaits the rate
\* limiter
RobotsChecked(f) ==
  /\ fetch[f].pc = "robots"
  /\ LET ff == [fetch[f] EXCEPT !.order = @ \o <<"robots">>] IN
     IF FetchUrl(f) \in env.denied
       THEN /\ fetch' = [fetch EXCEPT ![f] = [ff EXCEPT !.pc = "warn"]]
            /\ UNCHANGED gateVars
     ELSE IF AfterRobots(ff.kind) = "gate"
       THEN LET g == GateAcquire(currentCount, queue, f) IN
            /\ currentCount' = g.count
            /\ queue' = g.queue
            /\ fetch' = [fetch EXCEPT ![f] =
                           IF g.pc = "queued" THEN [ff EXCEPT !.pc = "queued"]
                           ELSE EnterGate(ff)]
     ELSE /\ fetch' = [fetch EXCEPT ![f] =
                         IF ff.browser
                           THEN [ff EXCEPT !.pc = "permit", !.order = @ \o <<"await">>]
                           ELSE [ff EXCEPT !.pc = "launch"]]
          /\ UNCHANGED gateVars
  /\ UNCHANGED <<FetchRest, env>>

\* the addWarning save has returned: the 403 is thrown, counted and rethrown
WarnSaved(f) ==
  /\ fetch[f].pc = "warn"
  /\ fetch' = [fetch EXCEPT ![f].pc = "failed", ![f].attempts = @ + 1]
  /\ UNCHANGED <<FetchRest, gateVars, env>>

\* puppeteer.launch has returned: scrapingLimiter.acquire is awaited
Launched(f) ==
  /\ fetch[f].pc = "launch"
  /\ fetch' = [fetch EXCEPT ![f].pc = "permit", ![f].browser = TRUE,
                            ![f].order = @ \o <<"await">>]
  /\ UNCHANGED <<FetchRest, gateVars, env>>

\* scrapingLimiter.acquire has returned: axios sends the request, or the
\* page navigates
PermitGranted(f) ==
  /\ fetch[f].pc = "permit"
  /\ fetch' = [fetch EXCEPT ![f].pc = "http", ![f].order = @ \o <<"permit", "send">>]
  /\ UNCHANGED <<FetchRest, gateVars, env>>

\* axios or the page has answered; execute's finally releases the gate's
\* permit if one is held, and the head of the queue enters; a failure is
\* counted and addError is awaited
Responded(f) ==
  /\ fetch[f].pc = "http"
  /\ LET fails == env.failUrl = FetchUrl(f) /\ env.fails > 0
         g == IF fetch[f].holds THEN GateRelease(currentCount, queue, fetch)
              ELSE [count |-> currentCount, queue |-> queue, runs |-> fetch]
         woken == IF fetch[f].holds /\ Len(queue) > 0 THEN {Head(queue)} ELSE {}
     IN
     /\ currentCount' = g.count
     /\ queue' = g.queue
     /\ env' = IF fails THEN [env EXCEPT !.fails = @ - 1] ELSE env
     /\ fetch' = [v \in Fetchers |->
          IF v = f
            THEN IF fails
                   THEN [fetch[f] EXCEPT !.pc = "addError", !.holds = FALSE,
                                         !.attempts = @ + 1]
                   ELSE [fetch[f] EXCEPT !.pc = "done", !.holds = FALSE]
          ELSE IF v \in woken THEN EnterGate(fetch[v])
          ELSE fetch[v]]
  /\ UNCHANGED FetchRest

\* the addError save has returned: the url is given up, or the backoff begins
ErrorSaved(f) ==
  /\ fetch[f].pc = "addError"
  /\ fetch' = [fetch EXCEPT ![f].pc =
                 IF Exhausted(fetch[f].attempts) THEN "failed" ELSE "backoff"]
  /\ UNCHANGED <<FetchRest, gateVars, env>>

\* the backoff sleep is over: the next attempt asks robots again
BackoffOver(f) ==
  /\ fetch[f].pc = "backoff"
  /\ fetch' = [fetch EXCEPT ![f].pc = "robots", ![f].order = <<>>]
  /\ UNCHANGED <<FetchRest, gateVars, env>>

\* Content.generateHash on the url of a call and on the urls compared with it
GenerateHash ==
  /\ hashCall.pc = "called"
  /\ hashCall' =
       [hashCall EXCEPT !.pc = "done",
          !.h = [f \in DOMAIN UrlForms(hashCall) |->
                   generateHash(UrlForms(hashCall)[f], hashCall.title)]]
  /\ UNCHANGED <<orchAll, now, storeVars, scrapingLimiter, robotsCache, pipe,
                 delayCall, fetch>>

\* acquire: const randomDelay = this.getRandomDelay(bucket)
GetRandomDelay ==
  /\ delayCall.pc = "called"
  /\ delayCall' = [delayCall EXCEPT !.pc = "done",
                     !.delay = getRandomDelay(delayCall.bucket, delayCall.random)]
  /\ UNCHANGED <<orchAll, now, storeVars, scrapingLimiter, robotsCache, pipe,
                 hashCall, fetch>>

Init == OrchInit /\ StoreInit /\ AuxInit

Next ==
  \/ RunAllScrapers
  \/ \E name \in RequestNames : StartSpecific(name)
  \/ StopAll
  \/ \E c \in RunIds : RunAllSettled(c)
  \/ \E r \in RunIds : RunStep(r)

Spec == Init /\ [][Next]_vars

\* the content store with its parallel writers, the status requests and the
\* clock, while the orchestrator is idle
InitStore == Init /\ env.watch

NextStore ==
  \/ \E w \in Writers, contents \in Batches : BulkUpsert(w, contents)
  \/ \E w \in Writers : UpsertFind(w)
  \/ \E w \in Writers : UpsertInsert(w)
  \/ \E doc \in store, status \in Statuses : SetStatus(doc, status)
  \/ Tick

SpecStore == InitStore /\ [][NextStore]_vars

\* the content store with one writer, the status requests, the clock and
\* cleanup
NextCleanup ==
  \/ BulkUpsert("w1", <<Item3, Item1>>)
  \/ UpsertFind("w1")
  \/ UpsertInsert("w1")
  \/ \E doc \in store, status \in Statuses : SetStatus(doc, status)
  \/ \E maxAgeDays \in MaxAgeChoices : Cleanup(maxAgeDays)
  \/ Tick

SpecCleanup == InitStore /\ [][NextCleanup]_vars

\* the content store with one writer, the status and detail requests,
\* flag(), the clock and the TTL monitor, where content is kept one day
InitExpiry == OrchStart /\ env \in ExpiryWorlds /\ StoreInit /\ AuxInit

NextExpiry ==
  \/ BulkUpsert("w1", <<Item3, Item1>>)
  \/ UpsertFind("w1")
  \/ UpsertInsert("w1")
  \/ \E doc \in store, status \in AllStatuses : SetStatus(doc, status)
  \/ \E doc \in store : Flag(doc)
  \/ \E doc \in store : GetContentById(doc)
  \/ \E doc \in store : TtlExpire(doc)
  \/ Tick

SpecExpiry == InitExpiry /\ [][NextExpiry]_vars

\* the methods of one ScrapingLog document, called with any results
CompleteInputs ==
  { [found |-> f, inserted |-> 0, updated |-> 0, duplicates |-> f,
     failed |-> x, urlsProcessed |-> 2 - u,
     urlsFailed |-> u] : f \in 0..1, x \in 0..MaxFailed, u \in 0..1 }

LogOpen ==
  /\ logs[1].status = "none"
  /\ logs' = [logs EXCEPT ![1] = StartSession("news", now)]
  /\ UNCHANGED <<orchVars, gateVars, runs, nRuns, inst, calls, now, env,
                 lastResp, storeVars, auxVars>>

LogCall(l) ==
  /\ logs[1].status # "none"
  /\ logs' = [logs EXCEPT ![1] = l]
  /\ UNCHANGED <<orchVars, gateVars, runs, nRuns, inst, calls, now, env,
                 lastResp, storeVars, auxVars>>

NextLog ==
  \/ LogOpen
  \/ \E res \in CompleteInputs : LogCall(LogComplete(logs[1], res, now))
  \/ /\ Len(logs[1].errors) < MaxEntries
     /\ LogCall(LogFail(logs[1], "Error", now))
  \/ LogCall(LogCancel(logs[1], now))
  \/ /\ Len(logs[1].errors) < MaxEntries
     /\ LogCall(LogAddError(logs[1], "news1", 1))
  \/ /\ Len(logs[1].warnings) < MaxEntries
     /\ LogCall(LogAddWarning(logs[1], "news1"))
  \/ Tick

SpecLog == InitStore /\ [][NextLog]_vars

\* one adapter that runs over the same feed MaxPasses times as writer w1 of
\* the store, while another adapter saves a batch as writer w2
NextFeed ==
  \/ \E keywords \in KeywordChoices, text \in MaxItemsChoices, feed \in FeedChoices :
       Configure(keywords, text, feed)
  \/ FeedScraped
  \/ FeedSave
  \/ BulkUpsert("w2", OtherBatch)
  \/ \E w \in Writers : UpsertFind(w)
  \/ \E w \in Writers : UpsertInsert(w)
  \/ FeedSaved
  \/ Tick

SpecFeed == InitStore /\ [][NextFeed]_vars

\* scrapingLimiter.acquire for google.com urls by the holders of the gate's
\* permits, with the clock
NextRate ==
  \/ \E c \in Acquirers : Acquire(c)
  \/ \E c \in Acquirers : WaitOver(c)
  \/ \E c \in Acquirers : DelayOver(c)
  \/ RateTick

\* Content.generateHash on urls and titles of a few letters
InitHash ==
  /\ OrchStart /\ env \in {w \in Worlds : w.watch} /\ StoreInit /\ AuxStart
  /\ hashCall \in HashInputs /\ delayCall = NoDelay
  /\ fetch = [f \in Fetchers |-> IdleFetch]

NextHash == GenerateHash

SpecHash == InitHash /\ [][NextHash]_vars

\* getRandomDelay on the domain profiles
InitDelay ==
  /\ OrchStart /\ env \in {w \in Worlds : w.watch} /\ StoreInit /\ AuxStart
  /\ hashCall = NoHash /\ delayCall \in DelayInputs
  /\ fetch = [f \in Fetchers |-> IdleFetch]

NextDelay == GetRandomDelay

SpecDelay == InitDelay /\ [][NextDelay]_vars

\* request() and puppeteerRequest() called by four fetchers
InitFetch == OrchStart /\ env \in FetchWorlds /\ StoreInit /\ AuxInit

NextFetch ==
  \/ \E f \in Fetchers, kind \in FetchKinds : Begin(f, kind)
  \/ \E f \in Fetchers : RobotsChecked(f)
  \/ \E f \in Fetchers : WarnSaved(f)
  \/ \E f \in Fetchers : Launched(f)
  \/ \E f \in Fetchers : PermitGranted(f)
  \/ \E f \in Fetchers : Responded(f)
  \/ \E f \in Fetchers : ErrorSaved(f)
  \/ \E f \in Fetchers : BackoffOver(f)

SpecFetch == InitFetch /\ [][NextFetch]_vars

\* request() called by four fetchers for urls that are allowed and answer,
\* and runAllScrapers with its concurrentLimiter.reset(); a fetcher that has
\* begun goes on whenever it can (its timers and responses arrive)
InitGate ==
  /\ OrchStart /\ StoreInit /\ AuxInit
  /\ env \in {w \in FetchWorlds : w.denied = {} /\ w.fails = 0 /\ ~(w.USE_PUPPETEER = "true")}

FetchStep(f) == RobotsChecked(f) \/ PermitGranted(f) \/ Responded(f)

NextGate ==
  \/ \E f \in Fetchers : Begin(f, "plain")
  \/ \E f \in Fetchers : FetchStep(f)
  \/ RunAllScrapers

SpecGate ==
  InitGate /\ [][NextGate]_vars /\ \A f \in Fetchers : WF_vars(FetchStep(f))

SpecRate == InitStore /\ [][NextRate]_vars

\* robotsCache.get by two callers, with the clock
NextRobots ==
  \/ \E g \in Getters, key \in Origins, path \in Paths : RobotsGet(g, key, path)
  \/ \E g \in Getters, outcome \in FetchOutcomes : RobotsFetched(g, outcome)
  \/ Tick

SpecRobots == InitStore /\ [][NextRobots]_vars

\* RobotsCache.get by two callers on a cache one entry short of maxSize
InitEvict ==
  /\ OrchStart /\ env \in {w \in Worlds : w.watch} /\ StoreInit
  /\ scrapingLimiter = [bucket |-> NoBucket,
                        acq |-> [c \in Acquirers |-> IdleAcquire],
                        grants |-> <<>>]
  /\ robotsCache = [cache |-> Prefilled, get |-> [g \in Getters |-> IdleGet],
                    fetchErrors |-> 0]
  /\ pipe = NoPipe
  /\ hashCall = NoHash /\ delayCall = NoDelay
  /\ fetch = [f \in Fetchers |-> IdleFetch]

NextEvict ==
  \/ \E g \in Getters, key \in Origins : RobotsGet(g, key, "/rss")
  \/ \E g \in Getters : RobotsFetched(g, [kind |-> "200", disallow |-> {}])
  \/ Tick

SpecEvict == InitEvict /\ [][NextEvict]_vars

\* ================================================================= claims
Quiescent == \A r \in RunIds : runs[r].pc \in {"idle", "done"}

\* C1: at every moment the number of fetches in flight is at most
\* MAX_CONCURRENT_REQUESTS, whatever startAll, startSpecific and stopAll
\* requests interleave with the runs.
C1_InFlightBound == Cardinality(InFlight) <= MaxConcurrent

\* C2: a request attempt whose robots check answered "disallowed" issues no
\* HTTP request: a run waits for or holds a fetch permit only when the robots
\* check of that attempt answered "allowed".
C2_DeniedNeverFetches ==
  \A r \in RunIds :
    runs[r].pc \in {"queued", "http"} => runs[r].robots = "allowed"

\* a run whose attempt was denied has ended, and never fetched that url
C2_Witness ==
  \E r \in RunIds :
    /\ runs[r].robots = "denied"
    /\ runs[r].pc = "done"
    /\ CurrentUrl(r) \notin inst[runs[r].adapter].processed

\* C3: after any sequence of bulkUpsert calls, with the same url/title pair
\* several times in a batch and with writers running in parallel, the store
\* holds at most one document per content hash, and that hash is the hash of
\* the document's url and title.
C3_OnePerHash ==
  /\ \A d1, d2 \in store : d1.contentHash = d2.contentHash => d1 = d2
  /\ \A doc \in store : doc.contentHash = generateHash(doc.url, doc.title)

\* two writers met on one hash: one inserted it, the other was rejected
C3_Witness ==
  \E w, v \in Writers :
    /\ w # v
    /\ wr[w].pc = "idle" /\ wr[w].failed > 0
    /\ wr[v].pc = "idle" /\ wr[v].inserted > 0
    /\ Cardinality(store) = 1

\* a document without the fields named in hidden
Without(doc, hidden) == [f \in (DOMAIN doc) \ hidden |-> doc[f]]

\* C4 as stated: bulkUpsert(batch) immediately followed by the same call
\* reports inserted = 0 and leaves the set of documents and every field other
\* than lastUpdated unchanged.
C4_RepeatKeepsAllButLastUpdated ==
  echo.phase = "second" =>
    /\ echo.inserted = 0
    /\ {Without(doc, {"lastUpdated"}) : doc \in echo.final}
         = {Without(doc, {"lastUpdated"}) : doc \in echo.snap}

\* C4 amended: bulkUpsert(batch) immediately followed by the same call
\* reports inserted = 0 and leaves the set of documents and every field other
\* than lastUpdated and the schema's updatedAt unchanged.
C4_RepeatKeepsAllButTimestamps ==
  echo.phase = "second" =>
    /\ echo.inserted = 0
    /\ {Without(doc, {"lastUpdated", "updatedAt"}) : doc \in echo.final}
         = {Without(doc, {"lastUpdated", "updatedAt"}) : doc \in echo.snap}

\* a batch was sent twice, a day apart, and the second call wrote
C4_Witness == echo.phase = "second" /\ echo.final # echo.snap

\* C5: cleanup(maxAgeDays) deletes exactly the documents whose scrapedAt lies
\* before now minus maxAgeDays and whose status is not flagged; a flagged
\* document is never deleted by cleanup, whatever its age.
C5_CleanupDeletesOldUnflagged ==
  cleaned.n > 0 =>
    /\ cleaned.after \subseteq cleaned.before
    /\ \A doc \in cleaned.before :
         doc \notin cleaned.after <=>
           (doc.scrapedAt < cleaned.at - cleaned.maxAgeDays /\ doc.status # "flagged")

\* a cleanup met an old flagged document and an old document that was not
C5_Witness ==
  /\ cleaned.n > 0
  /\ \E d1, d2 \in cleaned.before :
       /\ d1.scrapedAt < cleaned.at - cleaned.maxAgeDays
       /\ d2.scrapedAt < cleaned.at - cleaned.maxAgeDays
       /\ d1.status = "flagged" /\ d1 \in cleaned.after
       /\ d2.status # "flagged" /\ d2 \notin cleaned.after

\* C6: once a run log is terminal, a later complete, fail or cancel changes
\* neither its status nor its endedAt.
C6_TerminalLogFrozen ==
  [][\A h \in RunIds :
       logs[h].status \in Terminal =>
         /\ logs'[h].status = logs[h].status
         /\ logs'[h].endedAt = logs[h].endedAt]_vars

\* C7: startAll while isRunning is rejected as already running, starts no
\* adapter task and leaves the adapter map, the overall counters, lastRun and
\* the gate unchanged.
C7_RejectedStartAll ==
  [][(isRunning /\ RunAllScrapers) =>
       /\ lastResp' = Answer("all:AlreadyRunning")
       /\ UNCHANGED <<isRunning, activeScrapers, overall, lastRun,
                      currentCount, queue, runs, nRuns, inst, logs, calls>>]_vars

C7_Witness == isRunning /\ lastResp = "all:AlreadyRunning"

C9_StopCancelsOnlyRunning ==
  [][(isRunning /\ StopAll) =>
       /\ ~isRunning'
       /\ \A a \in Adapters :
            IF activeScrapers[a].status = "running"
              THEN activeScrapers'[a].status = "cancelled"
              ELSE activeScrapers'[a] = activeScrapers[a]]_vars

\* C10: when stopAll took effect during a startAll run, the state in which
\* that run has ended has isRunning false, every entry terminal and at least
\* one entry cancelled.
C10_StoppedRunEndsCancelled ==
  \A c \in RunIds :
    (calls[c] = "doneStopped" /\ Quiescent) =>
      /\ ~isRunning
      /\ \A a \in Adapters : activeScrapers[a].status \in Terminal
      /\ \E a \in Adapters : activeScrapers[a].status = "cancelled"

\* C11: after stopAll took effect, an adapter task that was in flight starts
\* no fetch for a feed URL it had not already begun fetching.
C11_NoNewUrlAfterStop ==
  [][\A r \in RunIds :
       (/\ runs[r].call # 0
        /\ calls[runs[r].call] = "stopped"
        /\ runs[r].pc \in {"precheck", "http"}) => runs'[r].pc # "robots"]_vars

\* C16: when robots.txt disallows one of an adapter's URLs and allows
\* another, the run does not fail because of the denial.
C16_DenialSkipsOnlyUrl ==
  \A r \in RunIds :
    runs[r].err = "robots" =>
      \A i \in 1..Len(FeedUrls(runs[r].adapter)) :
        ~RobotsAllowed(FeedUrls(runs[r].adapter)[i])

\* C17: when a feed URL exhausts its retries the adapter continues with its
\* remaining URLs: no run fails because of that URL.
C17_ExhaustedUrlKeepsRun ==
  \A r \in RunIds : runs[r].err # "fetch"

\* C18: every URL in the failed-URL set of an adapter has an entry with its
\* url in errors[] of the adapter's run log.
C18_FailedUrlHasError ==
  \A a \in Adapters :
    inst[a].scrapingLog # 0 =>
      \A u \in inst[a].failed :
        \E i \in 1..Len(logs[inst[a].scrapingLog].errors) :
          logs[inst[a].scrapingLog].errors[i].url = u

\* the attempts request() may still issue inside one call
RequestPcs == {"robots", "warn", "queued", "http", "addError", "backoff"}

\* C13: one logical fetch issues at most max-retries attempts; after a
\* failed attempt it retries only while the attempt count is below
\* max-retries, and when the last allowed attempt fails the url is added to
\* the failed set and a fetch error is raised.
C13_AtMostMaxRetries ==
  /\ [](\A r \in RunIds :
          /\ runs[r].tries <= MAX_RETRIES
          /\ runs[r].pc \in RequestPcs \ {"addError"} =>
               runs[r].attempts < MAX_RETRIES)
  /\ [][\A r \in RunIds :
          (runs[r].pc = "addError" /\ runs'[r].pc # "addError") =>
            IF runs[r].attempts < MAX_RETRIES
              THEN runs'[r].pc = "backoff"
              ELSE /\ runs'[r].pc = "fail"
                   /\ runs'[r].err = "fetch"
                   /\ CurrentUrl(r) \in inst'[runs[r].adapter].failed]_vars

\* a fetch has used all its attempts and raised the fetch error
C13_Witness ==
  \E r \in RunIds :
    /\ runs[r].pc = "fail"
    /\ runs[r].err = "fetch"
    /\ runs[r].tries = MAX_RETRIES
    /\ CurrentUrl(r) \in inst[runs[r].adapter].failed

\* C14: with MAX_RETRIES configured as 0 a failing fetch is attempted once
\* and never retried.
C14_ZeroMeansNoRetry ==
  env.MAX_RETRIES = "0" =>
    \A r \in RunIds : runs[r].tries <= 1 /\ runs[r].pc # "backoff"

\* the world in which the first job feed fails twice and then answers,
\* with the default max-retries 3
TwoFailures == env.failUrl = "job1" /\ env.MAX_RETRIES = ""

\* the entries of errors[] for url u, in order
ErrorsOf(l, u) == SelectSeq(l.errors, LAMBDA e : e.url = u)

\* C15: with max-retries 3, a url that fails on attempts 1 and 2 and succeeds
\* on attempt 3 is processed, not failed, has exactly two error entries with
\* retryCount 1 and 2, and its run ends completed.
C15_ThirdAttemptSucceeds ==
  TwoFailures =>
    \A r \in RunIds :
      (runs[r].adapter = "job" /\ runs[r].pc = "done") =>
        LET l == logs[inst["job"].scrapingLog] IN
        /\ runs[r].err = ""
        /\ runs[r].found = 1
        /\ "job1" \in inst["job"].processed
        /\ "job1" \notin inst["job"].failed
        /\ l.status = "completed"
        /\ l.urlsProcessed = 2
        /\ l.urlsFailed = 0
        /\ Len(ErrorsOf(l, "job1")) = 2
        /\ ErrorsOf(l, "job1")[1].retryCount = 1
        /\ ErrorsOf(l, "job1")[2].retryCount = 2
        /\ activeScrapers["job"].status = "completed"

\* the job run has ended after its first feed answered on the third attempt
C15_Witness ==
  /\ TwoFailures
  /\ \E r \in RunIds :
       /\ runs[r].adapter = "job"
       /\ runs[r].pc = "done"
       /\ runs[r].tries = 1
       /\ env.fails = 0
       /\ Len(logs[inst["job"].scrapingLog].errors) = 2

\* C19: complete(results) on a running log sets the status to partial when
\* results.failed > 0 and to completed when results.failed = 0, and sets
\* endedAt and the counters in both cases.
C19_PartialWhenFailed ==
  [][\A h \in RunIds :
       (logs[h].status = "running" /\ logs'[h].status \in {"completed", "partial"}) =>
         /\ logs'[h].status = IF logs'[h].failed > 0 THEN "partial" ELSE "completed"
         /\ logs'[h].endedAt = now]_vars

\* C12: in every time window the permits granted for a domain are at most
\* capacity + window length x refill rate; in parts of a token, for the
\* window from the i-th to the j-th grant.
C12_GrantsWithinBucket ==
  \A i, j \in 1..Len(scrapingLimiter.grants) :
    i <= j =>
      (j - i + 1) * Permit <=
        Capacity + (scrapingLimiter.grants[j] - scrapingLimiter.grants[i])

\* C20: for each origin at most one robots.txt fetch is in flight.
C20_SingleFetchPerOrigin ==
  \A key \in Origins :
    Cardinality({g \in Getters : /\ robotsCache.get[g].pc = "fetch"
                                 /\ robotsCache.get[g].origin = key}) <= 1

\* the p-th run over the feed has ended
PassDone(p) == pipe.pass = p /\ pipe.phase = "idle"

\* the keyword occurs in the item's title or description
Mentions(entry, k) ==
  Includes(ToLowerCase(entry[1]), k) \/ Includes(ToLowerCase(entry[3]), k)

\* C22: with keywords [webmethods] and a feed of one item whose title holds
\* the keyword and one item whose title and description do not, exactly one
\* record is persisted and the run log has found = 1 and inserted = 1.
C22_OnlyKeywordItemKept ==
  (/\ PassDone(1)
   /\ pipe.keywords = <<Webmethods>>
   /\ Len(pipe.feed) = 2
   /\ Includes(ToLowerCase(pipe.feed[1][1]), Webmethods)
   /\ ~Mentions(pipe.feed[2], Webmethods)) =>
     /\ Cardinality(store) = 1
     /\ logs[1].found = 1
     /\ logs[1].inserted = 1

\* C23: when the feed yields at least one candidate and every candidate
\* fails the relevance filter, the run completes with found > 0 and
\* inserted = 0.
C23_AllFilteredStillFound ==
  (/\ PassDone(1)
   /\ \E i \in 1..Len(pipe.feed) : pipe.feed[i][1] # <<>>
   /\ \A i \in 1..Len(pipe.feed) :
        ~IsRelevant(Candidate(pipe.feed[i][1], pipe.feed[i][2],
                              pipe.feed[i][3], pipe.keywords), pipe.keywords)) =>
     /\ logs[1].status = "completed"
     /\ logs[1].found > 0
     /\ logs[1].inserted = 0

\* C24: a run over a feed whose items are all stored already has
\* inserted = 0 and updated + duplicates = found in its log.
C24_ReobservedCountsAddUp ==
  (PassDone(2) /\ pipe.allStored /\ logs[2].status = "completed") =>
     /\ logs[2].inserted = 0
     /\ logs[2].updated + logs[2].duplicates = logs[2].found

\* C21: a robots.txt fetch that fails (network error, timeout, status 500 or
\* above) adds exactly one to fetchErrors, and whatever it leaves in the
\* cache never makes isAllowed answer false.
C21_FailedFetchAllows ==
  /\ [](\A g \in Getters :
          robotsCache.get[g].got.error => robotsCache.get[g].allowed)
  /\ [][\A g \in Getters :
          (robotsCache.get[g].pc = "fetch" /\ robotsCache'.get[g].pc = "idle") =>
            robotsCache'.fetchErrors =
              robotsCache.fetchErrors +
                (IF robotsCache'.get[g].got.error THEN 1 ELSE 0)]_vars

\* two callers have been answered from the result of one failed fetch, for
\* different paths of the origin
C21_Witness ==
  \E g, h \in Getters :
    /\ g # h
    /\ robotsCache.fetchErrors >= 1
    /\ robotsCache.get[g].pc = "idle"
    /\ robotsCache.get[g].got.error
    /\ robotsCache.get[h].pc = "idle"
    /\ robotsCache.get[h].got.error
    /\ robotsCache.get[h].got = robotsCache.get[g].got
    /\ robotsCache.get[h].path # robotsCache.get[g].path

\* C25: when two adapters upsert the same content hash concurrently and
\* the store reports a duplicate-key collision, neither bulkUpsert call
\* fails and neither run ends failed because of it.
C25_CollisionNotAnError ==
  \A p \in 1..MaxPasses : logs[p].status # "failed"
\* C26: a record whose status is flagged is never removed by TTL expiry on
\* expiresAt, whatever was applied to it before.
C26_FlaggedNeverExpires ==
  [][\A doc \in store :
       doc.status = "flagged" => \E kept \in store' : kept.id = doc.id]_vars

\* C27: generateHash(url, title) is unchanged by leading or trailing
\* whitespace in the url and by letter case in the url's host part, and two
\* urls that differ only in the letter case of their path give different
\* hashes for the same title.
C27_HashOfUrl ==
  hashCall.pc = "done" =>
    /\ hashCall.h.padded = hashCall.h.plain
    /\ hashCall.h.host = hashCall.h.plain
    /\ hashCall.h.path # hashCall.h.plain

\* C28: for every domain profile the jittered delay is an integer within
\* [minDelay, maxDelay] of that profile, and for every profile with
\* minDelay = maxDelay = v, any v >= 0, the delay is exactly v.
C28_DelayWithinProfile ==
  delayCall.pc = "done" =>
    /\ delayCall.delay \in delayCall.bucket.minDelay..delayCall.bucket.maxDelay
    /\ delayCall.bucket.minDelay = delayCall.bucket.maxDelay
         => delayCall.delay = delayCall.bucket.minDelay

\* what one attempt of request() does, in order
PlainOrder == <<"robots", "gate", "await", "permit", "send">>
IsPrefix(p, q) == Len(p) <= Len(q) /\ p = SubSeq(q, 1, Len(p))

\* C29: on every attempt of request(url) the robots check completes before
\* the concurrency gate is acquired, the gate is acquired before the
\* rate-limit permit is awaited, and the permit is obtained before the HTTP
\* request is sent.
C29_PlainEnvelopeOrder ==
  \A f \in Fetchers :
    fetch[f].kind = "plain" =>
      /\ IsPrefix(fetch[f].order, PlainOrder)
      /\ fetch[f].pc = "http" => fetch[f].order = PlainOrder /\ fetch[f].holds

\* a second attempt of request() has sent its HTTP request after waiting
\* for nothing but the envelope
C29_Witness ==
  \E f \in Fetchers :
    /\ fetch[f].kind = "plain" /\ fetch[f].pc = "http" /\ fetch[f].attempts = 1
    /\ fetch[f].order = PlainOrder

\* C30: puppeteerRequest passes through the same envelope as request(): on
\* every attempt it checks robots, then acquires the concurrency gate, then
\* the rate-limit permit, before navigating, so that a headless navigation
\* holds a gate permit while in flight.
C30_HeadlessSameEnvelope ==
  \A f \in Fetchers :
    fetch[f].kind = "puppeteer" =>
      /\ IsPrefix(fetch[f].order, PlainOrder)
      /\ fetch[f].pc = "http" => fetch[f].order = PlainOrder /\ fetch[f].holds

\* C31: a robots-disallowed url is failed without a backoff sleep and
\* without consuming a retry: the url's stored retry-attempt count is the
\* same after the denial as before it.
C31_DenialKeepsRetryCount ==
  [][\A r \in RunIds :
       runs[r].pc = "warn" /\ runs'[r].pc # "warn" =>
         /\ runs'[r].pc # "backoff"
         /\ inst'[runs[r].adapter].retry[CurrentUrl(r)]
              = inst[runs[r].adapter].retry[CurrentUrl(r)]]_vars

\* C32: a rate-limit token is consumed only when the bucket holds at least
\* one token, so the bucket's token count stays within [0, capacity] in
\* every reachable state, also when several callers wait on it at once.
C32_TokensWithinBucket ==
  /\ scrapingLimiter.bucket.tokens >= 0
  /\ scrapingLimiter.bucket.tokens <= Capacity

\* C33: the robots cache never holds more than maxSize entries, under any
\* interleaving of concurrent lookups for different origins; when an insert
\* finds the cache full, the entry evicted is the oldest-inserted one (an
\* entry that leaves the cache from another place is the expired entry of
\* the origin being looked up).
C33_CacheWithinMaxSize ==
  /\ [](Len(robotsCache.cache) <= maxSize)
  /\ [][\A i \in 2..Len(robotsCache.cache) :
          ~CacheHas(robotsCache'.cache, robotsCache.cache[i].origin) =>
            \E g \in Getters :
              /\ robotsCache.get[g].pc = "idle"
              /\ robotsCache'.get[g].pc = "fetch"
              /\ robotsCache'.get[g].origin = robotsCache.cache[i].origin]_vars

\* C34: the gate's permit is released exactly once for each acquire, so in
\* every reachable state currentCount equals the number of callers holding
\* a permit and 0 <= currentCount <= maxConcurrent, including across the
\* gate reset performed by startAll.
C34_CountIsHolders ==
  /\ currentCount = Cardinality(InFlight)
  /\ currentCount >= 0
  /\ currentCount <= MaxConcurrent

\* C35: bulkUpsert on a record whose hash already exists leaves that
\* record's scrapedAt and contentHash unchanged and sets lastUpdated;
\* scrapedAt is written only when the record is first inserted (no step
\* changes the scrapedAt of a stored record).
C35_UpdateKeepsScrapedAt ==
  [][/\ \A doc \in store : \A kept \in store' :
          kept.id = doc.id => kept.scrapedAt = doc.scrapedAt
     /\ \A w \in Writers :
          LET ww == wr[w]
              h == generateHash(ww.batch[ww.i].url, ww.batch[ww.i].title)
          IN
          (/\ ww.pc = "find"
           /\ wr'[w].i # ww.i \/ wr'[w].pc = "idle"
           /\ Matching(store, h) # {}) =>
             \E doc \in Matching(store, h) : \E kept \in store' :
               /\ kept.id = doc.id
               /\ kept.scrapedAt = doc.scrapedAt
               /\ kept.contentHash = doc.contentHash
               /\ kept.lastUpdated = ww.at]_vars

\* a stored record was observed again a day or more after its insertion
C35_Witness ==
  \E w \in Writers : \E doc \in store :
    /\ wr[w].modified > 0
    /\ doc.status = "active"
    /\ doc.lastUpdated > doc.scrapedAt

\* C36: every request(url) call for a robots-allowed url issues at least
\* one fetch attempt and ends by returning the response body or by raising
\* an error, also in a run that follows a run in which the url exhausted
\* its retries: no request() returns without a body and without an attempt.
C36_RequestAlwaysAttempts ==
  \A r \in RunIds :
    (runs[r].pc = "fail" /\ RobotsAllowed(CurrentUrl(r))) => runs[r].err # "parse"

\* the runs that have begun and not yet returned to runScraper's caller
Executing == {r \in RunIds : runs[r].pc \notin {"idle", "done"}}

\* C37: at no time are two runs of the same adapter instance executing
\* concurrently, for any sequence of startAll, startSpecific, stopAll and
\* scheduled triggers.
C37_OneRunPerAdapter ==
  \A r1, r2 \in Executing : runs[r1].adapter = runs[r2].adapter => r1 = r2

\* C38: every run log opened by startSession reaches a terminal status
\* through the run that opened it: no log is left running after its adapter
\* task has ended, and no run closes another run's log.
C38_LogClosedByItsRun ==
  /\ [](\A r \in RunIds : runs[r].pc = "done" => logs[r].status \in Terminal)
  /\ [][\A h \in RunIds :
          (logs[h].status = "running" /\ logs'[h].status \in Terminal) =>
            runs[h].pc # runs'[h].pc]_vars

\* C39: every caller queued at the concurrency gate eventually obtains a
\* permit, in FIFO order of arrival, provided each permit holder eventually
\* releases; no queued waiter is ever dropped, whatever orchestrator
\* operations run meanwhile.
C39_QueuedGetsPermit ==
  /\ \A f \in Fetchers : (fetch[f].pc = "queued") ~> (fetch[f].pc = "permit")
  /\ [][\A f \in Fetchers :
          (fetch[f].pc = "queued" /\ fetch'[f].pc # "queued") =>
            (queue # <<>> /\ Head(queue) = f)]_vars

\* C40: re-observing an item through bulkUpsert never changes the existing
\* record's status or its view counter: a record that an operator flagged,
\* archived or marked deleted keeps that status after any later scrape of
\* the same url and title.
C40_UpsertKeepsStatus ==
  [][\A w \in Writers :
       (/\ wr[w].pc \in {"find", "insert"}
        /\ wr'[w].i # wr[w].i \/ wr'[w].pc \notin {"find", "insert"}) =>
          \A doc \in store : \E kept \in store' :
            /\ kept.id = doc.id
            /\ kept.status = doc.status
            /\ kept.views = doc.views]_vars

\* both records of the batch were observed again, one of them archived or
\* marked deleted and viewed before
C40_Witness ==
  /\ nBulk = 2 /\ wr["w1"].pc = "idle" /\ wr["w1"].modified = 2
  /\ \E doc \in store :
       doc.status \in {"archived", "deleted"} /\ doc.views > 0

====
